---- MODULE Spec2Model ----
(***************************************************************************)
(* The bathing-crow scene of src/src/App.jsx as a state machine.           *)
(*                                                                         *)
(* Lengths are in tenths of a world unit (0.9 is 9), squared distances in  *)
(* hundredths, times in milliseconds.  The pointer is represented by the   *)
(* point where its ray meets the plane z = 0 (App.jsx 101-105).            *)
(* A setTimeout callback runs at its deadline: time does not advance past  *)
(* a due timer, while a frame at the very instant of the deadline may run  *)
(* before or after the callback.                                           *)
(***************************************************************************)
EXTENDS Integers, Sequences, FiniteSets

VARIABLES
    scrubs,         \* App: useState(0)
    isGlowing,      \* App: useState(false)
    showIntro,      \* App: useState(true)
    dead,           \* App: useState(false)
    renderPending,  \* App state was set outside a click and is not rendered yet
    depsChanged,    \* scrubs differs from the value the effect last ran with
    dragging,       \* DraggableSponge: useState(false)
    position,       \* DraggableSponge: useState([1.2, 0.5, 0.6])
    pointer,        \* DraggableSponge: pointer ref, as its hit point on z = 0
    scrubCooldown,  \* DraggableSponge: useRef(false)
    cursor,         \* gl.domElement.style.cursor
    timers,         \* pending setTimeout callbacks, oldest first
    splashPlays,    \* number of splashSound.play() calls
    cawPlays,       \* number of cawSound.play() calls
    crowLoad,       \* outcome of loading /models/crow.glb
    tubLoad,        \* outcome of loading /models/bathtub.glb
    crowView,       \* what CrowModel returned at the last render
    tubView,        \* what ModelOrFallback returned at the last render
    fault,          \* an exception escaped a component's render
    sinceScrub,     \* history: ms since the last scrub event (saturating)
    sinceAnswer,    \* history: ms since the intro was dismissed (saturating)
    lastFrame       \* history: what the last useFrame callback did

vars == <<scrubs, isGlowing, showIntro, dead, renderPending, depsChanged,
          dragging, position, pointer, scrubCooldown, cursor, timers,
          splashPlays, cawPlays, crowLoad, tubLoad, crowView, tubView, fault,
          sinceScrub, sinceAnswer, lastFrame>>

appVars    == <<scrubs, isGlowing, showIntro, dead, renderPending, depsChanged>>
spongeVars == <<dragging, position, pointer, scrubCooldown, cursor>>
soundVars  == <<splashPlays, cawPlays>>
assetVars  == <<crowLoad, tubLoad>>
viewVars   == <<crowView, tubView, fault>>
histVars   == <<sinceScrub, sinceAnswer, lastFrame>>

----------------------------------------------------------------------------
(* Program constants *)

GlowThreshold == 10
CooldownMs == 350
DeadDelayMs == 800
Radius == 9
ClampLo == -3
ClampHi == 12
Target == <<0, -6, 0>>
StartPosition == <<12, 5, 6>>

(* Bounds of the model *)

MaxScrubs == 11

\* The pointer before any move, { x: 0, y: 0 }: the centre of the screen, whose
\* ray meets the plane z = 0 at the origin the camera looks at.
StartPointer == <<0, 0>>

\* Pointer hit points on the plane z = 0 a move may lead to: the target itself
\* (clamped up to y = -0.3), a point at distance exactly 0.9, a point far away
\* (clamped down to y = 1.2).
Pointers == { <<0, -6>>, <<0, 3>>, <<12, 14>> }

Answers == {"yes", "no"}
Assets == {"crow", "bathtub"}

----------------------------------------------------------------------------
(* Pure helpers *)

Min(a, b) == IF a < b THEN a ELSE b
Max(a, b) == IF a > b THEN a ELSE b

RECURSIVE GCD(_, _)
GCD(a, b) == IF b = 0 THEN a ELSE GCD(b, a % b)

\* The model's unit of time: every deadline falls on a tick.
TickMs == GCD(DeadDelayMs, CooldownMs)

\* Saturation points of the history clocks.
ScrubCap == CooldownMs + TickMs
AnswerCap == DeadDelayMs + TickMs

\* newPos = [pos.x, Math.max(-0.3, Math.min(1.2, pos.y)), pos.z]
NewPos(p) == <<p[1], Max(ClampLo, Min(ClampHi, p[2])), 0>>

\* dx*dx + dy*dy + dz*dz, the square of dist
Dist2(q) ==
    LET dx == q[1] - Target[1]
        dy == q[2] - Target[2]
        dz == q[3] - Target[3]
    IN  dx * dx + dy * dy + dz * dz

\* Mutant: dist <= 0.9
InRadiusInclusive(q) == Dist2(q) <= Radius * Radius

\* dist < 0.9
InRadius(q) == Dist2(q) < Radius * Radius

\* useGLTF(path): returns the model once it is loaded; until then it throws
\* the pending promise, and after a failed load the load error.
UseGLTF(load) ==
    CASE load = "loaded"  -> "none"
      [] load = "pending" -> "promise"
      [] load = "failed"  -> "error"

\* What a component's render comes to: the element it returns, what its catch
\* block caught, and whether an exception left it.
Rendered(shape, caught, escaped) ==
    [shape |-> shape, caught |-> caught, fault |-> escaped]

\* Mutant: CrowModel without its try and catch
CrowModelNoCatch(load) ==
    IF UseGLTF(load) = "none"
    THEN Rendered("primitive", "none", FALSE)
    ELSE Rendered("placeholder", "none", TRUE)

\* CrowModel: try { useGLTF ... <primitive> } catch (e) { placeholder }
CrowModel(load) ==
    IF UseGLTF(load) = "none"
    THEN Rendered("primitive", "none", FALSE)
    ELSE Rendered("placeholder", UseGLTF(load), FALSE)

\* ModelOrFallback: try { useGLTF ... <primitive> } catch (e) { fallback }
ModelOrFallback(load) ==
    IF UseGLTF(load) = "none"
    THEN Rendered("primitive", "none", FALSE)
    ELSE Rendered("placeholder", UseGLTF(load), FALSE)

\* setTimeout(callback, delay)
SetTimeout(q, kind, delay) == Append(q, [kind |-> kind, rem |-> delay])

RemoveAt(q, i) == [j \in 1..(Len(q) - 1) |-> IF j < i THEN q[j] ELSE q[j + 1]]

----------------------------------------------------------------------------
TypeOK ==
    /\ scrubs \in 0..MaxScrubs
    /\ isGlowing \in BOOLEAN /\ showIntro \in BOOLEAN /\ dead \in BOOLEAN
    /\ renderPending \in BOOLEAN /\ depsChanged \in BOOLEAN
    /\ dragging \in BOOLEAN /\ scrubCooldown \in BOOLEAN
    /\ cursor \in {"", "grabbing", "auto"}
    /\ pointer \in Pointers \cup {StartPointer}
    /\ position \in {StartPosition} \cup {NewPos(p) : p \in Pointers \cup {StartPointer}}
    /\ \A i \in 1..Len(timers) :
          /\ timers[i].kind \in {"cooldown", "dead"}
          /\ timers[i].rem \in 0..DeadDelayMs
    /\ splashPlays \in 0..MaxScrubs /\ cawPlays \in 0..MaxScrubs
    /\ crowLoad \in {"pending", "loaded", "failed"}
    /\ tubLoad \in {"pending", "loaded", "failed"}
    /\ crowView \in {CrowModel(l) : l \in {"pending", "loaded", "failed"}}
    /\ tubView \in {ModelOrFallback(l) : l \in {"pending", "loaded", "failed"}}
    /\ fault \in BOOLEAN
    /\ sinceScrub \in 0..ScrubCap /\ sinceAnswer \in 0..AnswerCap
    /\ lastFrame \in {"none", "idle", "miss", "scrub", "suppressed"}

Init ==
    /\ scrubs = 0
    /\ isGlowing = FALSE
    /\ showIntro = TRUE
    /\ dead = FALSE
    /\ renderPending = FALSE
    /\ depsChanged = FALSE
    /\ dragging = FALSE
    /\ position = StartPosition
    /\ pointer = StartPointer
    /\ scrubCooldown = FALSE
    /\ cursor = ""
    /\ timers = <<>>
    /\ splashPlays = 0
    /\ cawPlays = 0
    /\ crowLoad = "pending"
    /\ tubLoad = "pending"
    /\ crowView = CrowModel("pending")
    /\ tubView = ModelOrFallback("pending")
    /\ fault = FALSE
    /\ sinceScrub = ScrubCap
    /\ sinceAnswer = AnswerCap
    /\ lastFrame = "none"

----------------------------------------------------------------------------
(* App *)

\* Mutant: setScrubs(scrubs + 1) with the scrubs of the first render
HandleScrubStale ==
    /\ scrubs' = 1
    /\ renderPending' = TRUE
    /\ depsChanged' = TRUE

\* handleScrub: setScrubs((s) => s + 1), called from the frame loop, so the
\* re-render of App is left to the scheduler.
HandleScrub ==
    /\ scrubs' = scrubs + 1
    /\ renderPending' = TRUE
    /\ depsChanged' = TRUE

\* What the components of the scene return when the scene is rendered.
RenderScene ==
    /\ crowView' = CrowModel(crowLoad)
    /\ tubView' = ModelOrFallback(tubLoad)
    /\ fault' = (fault \/ CrowModel(crowLoad).fault \/ ModelOrFallback(tubLoad).fault)

\* Mutant: if (scrubs > 10)
EffectSetsGlowStrict == scrubs > GlowThreshold

\* Mutant: if (scrubs >= 9)
EffectSetsGlowEarly == scrubs >= GlowThreshold - 1

\* The condition of the effect: if (scrubs >= 10)
EffectSetsGlow == scrubs >= GlowThreshold

\* A scheduled render of App with its effect: useEffect(..., [scrubs]) runs
\* when scrubs changed, and setIsGlowing(true) asks for another render when it
\* changes the flag.
Render ==
    /\ renderPending
    /\ RenderScene
    /\ IF depsChanged /\ EffectSetsGlow
       THEN /\ isGlowing' = TRUE
            /\ renderPending' = ~isGlowing
       ELSE /\ isGlowing' = isGlowing
            /\ renderPending' = FALSE
    /\ depsChanged' = FALSE
    /\ UNCHANGED <<scrubs, showIntro, dead>>
    /\ UNCHANGED <<spongeVars, timers, soundVars, assetVars, histVars>>

\* Mutant: only the answer yes starts the timer
HandleAnswerOnlyYes(ans) ==
    /\ showIntro
    /\ ans \in Answers
    /\ showIntro' = FALSE
    /\ timers' = IF ans = "yes" THEN SetTimeout(timers, "dead", DeadDelayMs) ELSE timers
    /\ RenderScene
    /\ sinceAnswer' = 0
    /\ UNCHANGED <<scrubs, isGlowing, dead, renderPending, depsChanged>>
    /\ UNCHANGED <<spongeVars, soundVars, assetVars, sinceScrub, lastFrame>>

\* handleAnswer(ans), the onClick of the two buttons of the intro modal, which
\* is rendered while showIntro holds.  A click is rendered at once.
HandleAnswer(ans) ==
    /\ showIntro
    /\ ans \in Answers
    /\ showIntro' = FALSE
    /\ timers' = SetTimeout(timers, "dead", DeadDelayMs)
    /\ RenderScene
    /\ sinceAnswer' = 0
    /\ UNCHANGED <<scrubs, isGlowing, dead, renderPending, depsChanged>>
    /\ UNCHANGED <<spongeVars, soundVars, assetVars, sinceScrub, lastFrame>>

----------------------------------------------------------------------------
(* DraggableSponge *)

\* handlePointerMove, the window listener
PointerMove(p) ==
    /\ pointer' = p
    /\ UNCHANGED <<dragging, position, scrubCooldown, cursor>>
    /\ UNCHANGED <<appVars, timers, soundVars, assetVars, viewVars, histVars>>

\* onPointerDown of the grab mesh
PointerDown ==
    /\ dragging' = TRUE
    /\ cursor' = "grabbing"
    /\ UNCHANGED <<position, pointer, scrubCooldown>>
    /\ UNCHANGED <<appVars, timers, soundVars, assetVars, viewVars, histVars>>

\* Mutant: the end of the drag clears the pending release timer
PointerUpCancels ==
    /\ dragging' = FALSE
    /\ cursor' = "auto"
    /\ timers' = SelectSeq(timers, LAMBDA t : t.kind # "cooldown")
    /\ UNCHANGED <<position, pointer, scrubCooldown>>
    /\ UNCHANGED <<appVars, soundVars, assetVars, viewVars, histVars>>

\* onPointerUp of the grab mesh
PointerUp ==
    /\ dragging' = FALSE
    /\ cursor' = "auto"
    /\ UNCHANGED <<position, pointer, scrubCooldown>>
    /\ UNCHANGED <<appVars, timers, soundVars, assetVars, viewVars, histVars>>

\* onPointerLeave of the grab mesh
PointerLeave ==
    /\ dragging' = FALSE
    /\ cursor' = "auto"
    /\ UNCHANGED <<position, pointer, scrubCooldown>>
    /\ UNCHANGED <<appVars, timers, soundVars, assetVars, viewVars, histVars>>

\* Mutant: if (dist < 0.9)
ShouldScrubNoCooldown(q, cooldown) == InRadius(q)

\* if (dist < 0.9 && !scrubCooldown.current)
ShouldScrub(q, cooldown) == InRadius(q) /\ ~cooldown

\* Mutant: the cooldown flag is not set
ScrubNoCooldownFlag ==
    /\ scrubs < MaxScrubs
    /\ scrubCooldown' = scrubCooldown
    /\ HandleScrub
    /\ splashPlays' = splashPlays + 1
    /\ cawPlays' = cawPlays + 1
    /\ timers' = SetTimeout(timers, "cooldown", CooldownMs)
    /\ sinceScrub' = 0
    /\ lastFrame' = "scrub"

\* The body of that if: start the cooldown, onScrub(), both sounds, and the
\* timer that releases the cooldown.
Scrub ==
    /\ scrubs < MaxScrubs
    /\ scrubCooldown' = TRUE
    /\ HandleScrub
    /\ splashPlays' = splashPlays + 1
    /\ cawPlays' = cawPlays + 1
    /\ timers' = SetTimeout(timers, "cooldown", CooldownMs)
    /\ sinceScrub' = 0
    /\ lastFrame' = "scrub"

\* The branch of the useFrame callback under if (dragging)
DragFrameBody ==
    /\ position' = NewPos(pointer)
    /\ IF ShouldScrub(NewPos(pointer), scrubCooldown)
       THEN Scrub
       ELSE /\ lastFrame' = IF InRadius(NewPos(pointer)) THEN "suppressed" ELSE "miss"
            /\ UNCHANGED <<scrubs, renderPending, depsChanged, scrubCooldown>>
            /\ UNCHANGED <<timers, soundVars, sinceScrub>>
    /\ UNCHANGED <<isGlowing, showIntro, dead, dragging, pointer, cursor>>
    /\ UNCHANGED <<assetVars, viewVars, sinceAnswer>>

\* Mutant: the frame does not look at dragging
DragFrameAlways == DragFrameBody

\* The useFrame callback while dragging
DragFrame == dragging /\ DragFrameBody

\* The useFrame callback while not dragging: only the mesh bobs and turns,
\* which no state of the program reads.
IdleFrame ==
    /\ ~dragging
    /\ lastFrame' = "idle"
    /\ UNCHANGED <<appVars, spongeVars, timers, soundVars, assetVars, viewVars>>
    /\ UNCHANGED <<sinceScrub, sinceAnswer>>

Frame == DragFrame \/ IdleFrame

----------------------------------------------------------------------------
(* Timers and time *)

\* () => { scrubCooldown.current = false; }
CooldownRelease ==
    /\ scrubCooldown' = FALSE
    /\ UNCHANGED <<appVars, dragging, position, pointer, cursor>>

\* () => { setDead(true); }
DeadCallback ==
    /\ dead' = TRUE
    /\ renderPending' = TRUE
    /\ UNCHANGED <<scrubs, isGlowing, showIntro, depsChanged, spongeVars>>

\* A timer may run once it is due, the oldest due timer first.
TimerDue(i) ==
    /\ timers[i].rem = 0
    /\ \A j \in 1..(i - 1) : timers[j].rem # 0

FireTimer(i) ==
    /\ i \in 1..Len(timers)
    /\ TimerDue(i)
    /\ IF timers[i].kind = "cooldown" THEN CooldownRelease ELSE DeadCallback
    /\ timers' = RemoveAt(timers, i)
    /\ UNCHANGED <<soundVars, assetVars, viewVars, histVars>>

\* Time passes by one tick, unless a timer is due.
Tick ==
    /\ \A i \in 1..Len(timers) : timers[i].rem > 0
    /\ timers' = [i \in 1..Len(timers) |->
                    [timers[i] EXCEPT !.rem = Max(0, @ - TickMs)]]
    /\ sinceScrub' = Min(ScrubCap, sinceScrub + TickMs)
    /\ sinceAnswer' = Min(AnswerCap, sinceAnswer + TickMs)
    /\ UNCHANGED <<appVars, spongeVars, soundVars, assetVars, viewVars, lastFrame>>

----------------------------------------------------------------------------
(* Assets *)

\* The load of a model file ends: the file is there, or it is not.  Nothing
\* re-renders: the components caught the pending promise themselves.
LoadSettles(a, outcome) ==
    /\ outcome \in {"loaded", "failed"}
    /\ IF a = "crow"
       THEN crowLoad = "pending" /\ crowLoad' = outcome /\ tubLoad' = tubLoad
       ELSE tubLoad = "pending" /\ tubLoad' = outcome /\ crowLoad' = crowLoad
    /\ UNCHANGED <<appVars, spongeVars, timers, soundVars, viewVars, histVars>>

----------------------------------------------------------------------------
Next ==
    \/ \E ans \in Answers : HandleAnswer(ans)
    \/ Render
    \/ \E p \in Pointers : PointerMove(p)
    \/ PointerDown
    \/ PointerUp
    \/ PointerLeave
    \/ Frame
    \/ \E i \in 1..Len(timers) : FireTimer(i)
    \/ Tick

\* The scene while the model files are still loading.
Spec == Init /\ [][Next]_vars

\* Time passes and the event loop runs every due timer.
Fairness ==
    /\ WF_vars(Tick)
    /\ WF_vars(\E i \in 1..Len(timers) : FireTimer(i))

FairSpec == Spec /\ Fairness

\* The scheduler runs every render it was asked for.
RenderFairness == WF_vars(Render)

RenderFairSpec == Spec /\ RenderFairness

\* The scene with the sponge left alone, while the loads of the two model
\* files end one way or the other.
SceneNext ==
    \/ \E ans \in Answers : HandleAnswer(ans)
    \/ Render
    \/ IdleFrame
    \/ \E i \in 1..Len(timers) : FireTimer(i)
    \/ Tick
    \/ \E a \in Assets : \E o \in {"loaded", "failed"} : LoadSettles(a, o)

SceneSpec == Init /\ [][SceneNext]_vars

----------------------------------------------------------------------------
(* Properties *)

CooldownTimers == {i \in 1..Len(timers) : timers[i].kind = "cooldown"}
DeadTimers == {i \in 1..Len(timers) : timers[i].kind = "dead"}
TargetPointer == <<Target[1], Target[2]>>

\* The square of the least distance the clamp allows: (-0.3 - (-0.6))^2
MinDist2 == (ClampLo - Target[2]) * (ClampLo - Target[2])

\* C1: a scrub event fires only in a drag frame whose distance is below the
\* radius while the cooldown is not active, and it starts the cooldown; while
\* the cooldown is active, and so during the 350 ms after a scrub event, no
\* step raises the counter or plays a sound, however often the sponge is seen
\* within the radius.
C1_CooldownSuppresses ==
    [][ /\ (scrubs' # scrubs =>
              /\ dragging /\ InRadius(position') /\ ~scrubCooldown
              /\ scrubCooldown' /\ scrubs' = scrubs + 1)
        /\ (scrubCooldown =>
              /\ scrubs' = scrubs
              /\ splashPlays' = splashPlays /\ cawPlays' = cawPlays)
        /\ (sinceScrub < CooldownMs => scrubCooldown /\ scrubs' = scrubs)
      ]_vars

\* A drag frame has just seen the sponge within the radius less than 350 ms
\* after a scrub event, and fired nothing.
C1_Witness ==
    /\ lastFrame = "suppressed"
    /\ dragging /\ InRadius(position)
    /\ sinceScrub > 0 /\ sinceScrub < CooldownMs
    /\ scrubs = 1

\* C2: every drag frame within the radius that comes more than 350 ms after
\* the last scrub event (or before any) raises the counter by one, so N such
\* frames give a counter of N; a counter of 10 or more leads to the glow flag
\* being true, it is true as soon as the effect has run for that counter, and
\* no step resets it to false.
C2_CountAndGlow ==
    /\ [][ (DragFrame /\ InRadius(position') /\ sinceScrub > CooldownMs)
              => scrubs' = scrubs + 1 ]_vars
    /\ [](scrubs >= GlowThreshold /\ ~depsChanged => isGlowing)
    /\ (scrubs >= GlowThreshold ~> isGlowing)
    /\ [][ isGlowing => isGlowing' ]_vars

\* The counter has grown past 10 and the glow flag is still true.
C2_Witness ==
    /\ scrubs > GlowThreshold
    /\ isGlowing
    /\ ~depsChanged /\ ~renderPending

\* C3: a click on either button does the same thing, the dead flag turns true
\* exactly 800 ms after the click and not before, and every dismissal of the
\* intro leads to the dead flag being true.
C3_EitherAnswerDies ==
    /\ [][ HandleAnswer("yes") <=> HandleAnswer("no") ]_vars
    /\ [][ (dead' /\ ~dead) => (~showIntro /\ sinceAnswer = DeadDelayMs) ]_vars
    /\ [](dead => ~showIntro /\ sinceAnswer >= DeadDelayMs)
    /\ (~showIntro ~> dead)

\* The intro was dismissed and the timer has set the dead flag.
C3_Witness ==
    /\ ~showIntro
    /\ dead
    /\ DeadTimers = {}
    /\ sinceAnswer = DeadDelayMs

\* C4 as stated: while dragging with no cooldown active, a pointer exactly at
\* the target point gives distance 0 and a scrub fires, and a distance equal
\* to the radius does not fire.
C4_AsStated ==
    [][ (DragFrame /\ ~scrubCooldown) =>
          /\ (pointer = TargetPointer =>
                Dist2(position') = 0 /\ scrubs' = scrubs + 1)
          /\ (Dist2(position') = Radius * Radius => scrubs' = scrubs)
      ]_vars

\* C4 amended: while dragging with no cooldown active, a pointer exactly at
\* the target point is clamped to (0, -0.3, 0), which gives distance 0.3 (a
\* square of 0.09), below the radius, so a scrub fires; no frame sees a
\* distance below 0.3; a distance equal to the radius does not fire, a scrub
\* fires exactly when the distance is strictly less than the radius.
C4_ClampedBoundary ==
    [][ (DragFrame /\ ~scrubCooldown) =>
          /\ (pointer = TargetPointer =>
                /\ position' = <<0, ClampLo, 0>>
                /\ Dist2(position') = MinDist2
                /\ scrubs' = scrubs + 1)
          /\ Dist2(position') >= MinDist2
          /\ (Dist2(position') = Radius * Radius => scrubs' = scrubs)
          /\ (scrubs' = scrubs + 1 <=> Dist2(position') < Radius * Radius)
      ]_vars

\* A drag frame with the pointer exactly at the target point has just fired a
\* scrub, from the clamped position at distance 0.3.
C4_Witness ==
    /\ lastFrame = "scrub" /\ sinceScrub = 0
    /\ dragging
    /\ pointer = TargetPointer
    /\ position = <<0, ClampLo, 0>>
    /\ Dist2(position) = MinDist2 /\ Dist2(position) # 0

\* C5: while the load of a model file has not succeeded, the component of
\* that file shows its placeholder, whatever became of the other file, and no
\* render lets an exception out.
C5_PlaceholderOnFailure ==
    /\ (crowLoad # "loaded" => crowView.shape = "placeholder")
    /\ (tubLoad # "loaded" => tubView.shape = "placeholder")
    /\ ~crowView.fault /\ ~tubView.fault /\ ~fault

\* The crow's render caught the load error and shows the placeholder while the
\* bathtub's model is shown.
C5_Witness ==
    /\ crowLoad = "failed"
    /\ crowView.shape = "placeholder" /\ crowView.caught = "error"
    /\ tubView.shape = "primitive"
    /\ ~fault

\* C6: from a state in which no drag gesture is active no step fires a scrub
\* event: the counter and the two sounds are untouched, the cooldown is not
\* started and no timer is set for it.
C6_IdleNeverScrubs ==
    [][ ~dragging =>
          /\ scrubs' = scrubs
          /\ splashPlays' = splashPlays /\ cawPlays' = cawPlays
          /\ (scrubCooldown' => scrubCooldown)
          /\ Len(timers') <= Len(timers) + (IF showIntro /\ ~showIntro' THEN 1 ELSE 0)
          /\ lastFrame' \in {lastFrame, "idle"}
      ]_vars

\* After a drag has ended, an idle frame has run with the sponge lying within
\* the radius and no cooldown active.
C6_Witness ==
    /\ lastFrame = "idle"
    /\ ~dragging /\ cursor = "auto"
    /\ InRadius(position)
    /\ ~scrubCooldown /\ sinceScrub > CooldownMs
    /\ scrubs > 0

\* C7: the scrub count is a natural number, no step lowers it, a step changes
\* it only by one, and every scrub event (told by its splash) raises it by
\* exactly one.
C7_CountMonotone ==
    /\ [](scrubs \in Nat)
    /\ [][ scrubs' = scrubs \/ scrubs' = scrubs + 1 ]_vars
    /\ [][ splashPlays' # splashPlays => scrubs' = scrubs + 1 ]_vars
    /\ [](scrubs = splashPlays /\ scrubs = cawPlays)

\* Several scrub events, an answer click, the dead timer and the end of the
\* drag have all happened.
C7_Witness ==
    /\ scrubs >= 2
    /\ dead
    /\ ~dragging /\ cursor = "auto"

\* C8: an active cooldown is always released in the end, whether or not the
\* drag goes on.
C8_CooldownReleased == scrubCooldown ~> ~scrubCooldown

\* The drag has ended while the cooldown of a scrub event is still active.
C8_Witness ==
    /\ scrubCooldown
    /\ ~dragging /\ cursor = "auto"
    /\ sinceScrub < CooldownMs

\* C9: the cooldown flag is true exactly when a release timer is pending,
\* there are never two of them, and the pending one is that of the last scrub
\* event: it comes due 350 ms after it, and the cooldown is released no
\* sooner.
C9_OneReleaseTimer ==
    /\ [](Cardinality(CooldownTimers) <= 1)
    /\ [](scrubCooldown <=> CooldownTimers # {})
    /\ [](\A i \in CooldownTimers : timers[i].rem + sinceScrub = CooldownMs)
    /\ [][ (scrubCooldown /\ ~scrubCooldown') => sinceScrub = CooldownMs ]_vars

\* The cooldown of a later scrub event is running, with its one timer.
C9_Witness ==
    /\ scrubs >= 2
    /\ scrubCooldown
    /\ Cardinality(CooldownTimers) = 1
    /\ sinceScrub > 0

\* C10: the glow flag is true only when the scrub count is at least 10.
C10_GlowOnlyAtThreshold == isGlowing => scrubs >= GlowThreshold

\* The glow flag is set at a count of exactly 10, with the intro answered and
\* the dead timer fired along the way.
C10_Witness ==
    /\ isGlowing
    /\ scrubs = GlowThreshold
    /\ dead

====
